---- MODULE Spec2Model ----
(***************************************************************************)
(* Model of interpretdl/interpreter/smooth_grad.py:                        *)
(*   SmoothGradInterpreter.interpret      (vision, lines 35-115)           *)
(*   SmoothGradNLPInterpreter.interpret   (NLP,    lines 143-208)          *)
(* One interpreter object of either class receives a sequence of interpret *)
(* calls.  predict_fn, text_to_input_fn and the visualisation functions    *)
(* are external collaborators: every call to one of them either raises or  *)
(* returns a value drawn from a small set.                                 *)
(***************************************************************************)
EXTENDS Integers, Sequences, FiniteSets, TLC

\* ------------------------------------------------------------------ bounds
MaxSamples == 3
MaxBsz == 2
MaxCalls == 2

\* ------------------------------------------------- optional values (None)
None == << >>
Some(x) == <<x>>

\* --------------------------------------------------------- float32 values
\* A finite float32 is [m, e] with value m * 2^e and 2^23 <= |m| < 2^24
\* (zero is m = 0, e = 0).  The exponent of FNaN marks nan (m = 0) and
\* +-inf (m = +-1).  Exponents stay far inside the float32 range here, so
\* overflow and subnormals do not arise.
MantissaBits == 24

RECURSIVE Pow2(_)
Pow2(n) == IF n = 0 THEN 1 ELSE 2 * Pow2(n - 1)

RECURSIVE BitLen(_)
BitLen(a) == IF a = 0 THEN 0 ELSE 1 + BitLen(a \div 2)

Abs(x) == IF x < 0 THEN -x ELSE x
Sgn(x) == IF x < 0 THEN -1 ELSE 1

FZero == [m |-> 0, e |-> 0]
FNaN == [m |-> 0, e |-> 1000]
FInf(s) == [m |-> s, e |-> FNaN.e]
IsSpecial(x) == x.e = FNaN.e

\* Round the exact value S * 2^e (plus a positive remainder below one unit
\* of S when sticky) to the nearest float32, ties to even.
RoundF(S, e, sticky) ==
    IF S = 0 THEN FZero
    ELSE LET a == Abs(S)
             L == BitLen(a)
         IN IF L <= MantissaBits
            THEN [m |-> Sgn(S) * a * Pow2(MantissaBits - L), e |-> e - (MantissaBits - L)]
            ELSE LET s == L - MantissaBits
                     q == a \div Pow2(s)
                     r == a % Pow2(s)
                     half == Pow2(s - 1)
                     up == r > half \/ (r = half /\ (sticky \/ q % 2 = 1))
                     q2 == IF up THEN q + 1 ELSE q
                 IN IF q2 = Pow2(MantissaBits)
                    THEN [m |-> Sgn(S) * Pow2(MantissaBits - 1), e |-> e + s + 1]
                    ELSE [m |-> Sgn(S) * q2, e |-> e + s]

\* float32 addition (the elementwise step of total_gradients += gradients).
AddF(x, y) ==
    IF IsSpecial(x) THEN x
    ELSE IF IsSpecial(y) THEN y
    ELSE IF x.m = 0 THEN y
    ELSE IF y.m = 0 THEN x
    ELSE LET e0 == IF x.e < y.e THEN x.e ELSE y.e
         IN RoundF(x.m * Pow2(x.e - e0) + y.m * Pow2(y.e - e0), e0, FALSE)

\* float32 division by the integer n (the elementwise step of
\* total_gradients / n_samples); numpy yields nan or inf for n = 0.
DivF(x, n) ==
    IF IsSpecial(x) THEN x
    ELSE IF n = 0 THEN (IF x.m = 0 THEN FNaN ELSE FInf(Sgn(x.m)))
    ELSE IF x.m = 0 THEN FZero
    ELSE LET num == Abs(x.m) * Pow2(6)
             d == Abs(n)
             q == num \div d
             r == num % d
         IN RoundF(Sgn(x.m) * Sgn(n) * q, x.e - 6, r > 0)

\* Gradient values a predict_fn stub returns: -1.0 and float32(0.9).
FMinusOne == [m |-> -8388608, e |-> -23]
FPointNine == [m |-> 15099494, e |-> -24]
GradVals == {FMinusOne, FPointNine}

\* ----------------------------------------------------------------- tensors
\* A tensor is a sequence (the batch axis) of sequences (all other axes,
\* flattened).  Pixel values and noise are small integers, exact in float32.
RECURSIVE MaxOf(_)
MaxOf(s) == IF Len(s) = 1 THEN s[1]
            ELSE LET t == MaxOf(Tail(s)) IN IF s[1] > t THEN s[1] ELSE t

RECURSIVE MinOf(_)
MinOf(s) == IF Len(s) = 1 THEN s[1]
            ELSE LET t == MinOf(Tail(s)) IN IF s[1] < t THEN s[1] ELSE t

\* np.zeros_like(t)
ZerosLike(t) == [j \in DOMAIN t |-> [k \in DOMAIN t[j] |-> FZero]]

\* a gradient tensor shaped like t whose every element is g
FillLike(t, g) == [j \in DOMAIN t |-> [k \in DOMAIN t[j] |-> g]]

\* total_gradients += gradients
Accumulate(total, gradients) ==
    [j \in DOMAIN total |-> [k \in DOMAIN total[j] |-> AddF(total[j][k], gradients[j][k])]]

\* faulty variant: the baseline call counted as one more sample of the average
Average_CountsBaseline(total, n) ==
    [j \in DOMAIN total |-> [k \in DOMAIN total[j] |-> DivF(total[j][k], n + 1)]]

\* total_gradients / n_samples
Average(total, n) ==
    [j \in DOMAIN total |-> [k \in DOMAIN total[j] |-> DivF(total[j][k], n)]]

\* stds = noise_amount * (np.max(data, axis) - np.min(data, axis))
Stds(d, na) == [j \in DOMAIN d |-> na * (MaxOf(d[j]) - MinOf(d[j]))]

\* one draw of np.random.normal(0.0, stds[j], shape) per sample: the standard
\* normal draw z scaled by stds[j] (exactly zero when stds[j] = 0)
Noise(d, s, z) == [j \in DOMAIN d |-> [k \in DOMAIN d[j] |-> s[j] * z[k]]]

\* _noised_data = data + noise
Noised(d, nz) == [j \in DOMAIN d |-> [k \in DOMAIN d[j] |-> d[j][k] + nz[j][k]]]

\* faulty variant: the noise added in place (data += noise)
DataAfterSample_InPlace(d, nd) == nd

\* data after _noised_data = data + noise: the sum is a new array and data
\* itself is left as it was
DataAfterSample(d, nd) == d

\* np.array(labels).reshape((bsz, )) succeeds iff labels holds bsz elements
ReshapeOk(lab, bsz) == Len(lab) = bsz

\* faulty variant: the assertion only asks for at least one of the two
ValidTextArgs_AtLeastOne(tok, fn) == tok \/ fn

\* assert (tokenizer is None) + (text_to_input_fn is None) == 1
ValidTextArgs(tok, fn) ==
    (IF tok THEN 0 ELSE 1) + (IF fn THEN 0 ELSE 1) = 1

\* faulty variant: the noisy call rebinds label (gradients, label, _, _ = ...)
NLPLabelAfterSample_Rebinds(cur, returned) == returned

\* gradients, _, _ = predict_fn(...) / gradients, _, _, _ = predict_fn(...):
\* the label a noisy call returns is discarded
VisionLabelsAfterSample(cur, returned) == cur
NLPLabelAfterSample(cur, returned) == cur

\* ------------------------------------------------------------ input domains
\* sample j of a batch: two "pixels" with dynamic range j
Sample(j) == <<j, 2 * j>>
Batches == {[j \in 1..b |-> Sample(j)] : b \in 1..MaxBsz}
LabelVals == {0, 1}
ProbaVals == {60, 90}
\* explicit vision labels of every length up to MaxBsz, and no labels
LabelArgs == {None} \cup {Some([j \in 1..k |-> j % 2]) : k \in 1..MaxBsz}
\* an explicit NLP label, and no label
NLPLabelArgs == {None} \cup {Some(<<l>>) : l \in LabelVals}
NoiseAmounts == {0, 1}
SampleCounts == (-1)..MaxSamples
\* standard normal draws for the two elements of a sample
NoiseZ == {<<1, -1>>, <<0, 2>>}
\* the tuple text_to_input_fn returns for the raw text: one batched id array
ModelInput == << <<7, 8>> >>
\* what predict_fn predicts for a batch of bsz samples
PredLabels(bsz) == {[j \in 1..bsz |-> l] : l \in LabelVals}
PredProbas(bsz) == {[j \in 1..bsz |-> p] : p \in ProbaVals}

VisFunctions == {"explanation_to_vis", "show_vis_explanation", "save_image"}

\* -------------------------------------------------------------------- state
VARIABLES
    variant,          \* "vision": SmoothGradInterpreter, "nlp": SmoothGradNLPInterpreter
    pc,               \* position of the current interpret call
    ncalls,           \* interpret calls started on the object
    args,             \* arguments of the current call (None before the first)
    data,             \* vision: data; NLP: model_input
    labels,           \* the local labels / label
    proba,            \* NLP: the local proba
    stds,
    i,                \* loop counter of the sampling loop
    total_gradients,
    avg_gradients,    \* vision: avg_gradients; NLP: sg_gradients
    noise,
    noised_data,      \* _noised_data of the last iteration
    vi,               \* loop counter of the visualisation loop
    predicted_label,  \* self.predicted_label
    predicted_proba,  \* self.predicted_proba
    self_labels,      \* self.labels
    calls,            \* predict_fn invocations of the current call, in order
    invoked,          \* other collaborators invoked by the current call
    failure,          \* the exception that ended the current call, if any
    returned,         \* gradient values the noisy predict_fn calls returned
    baseline_ret,     \* the label and proba the baseline predict_fn call returned
    result            \* what the current call returned to its caller

vars == <<variant, pc, ncalls, args, data, labels, proba, stds, i, total_gradients,
          avg_gradients, noise, noised_data, vi, predicted_label, predicted_proba,
          self_labels, calls, invoked, failure, returned, baseline_ret, result>>

fields == <<predicted_label, predicted_proba, self_labels>>

A == args[1]
Bsz == Len(data)
\* the exception raised at `site` after the predict_fn calls of `log`
Raise(site, log) == Some([site |-> site, at |-> Len(log)])
CanStart == pc = "idle" /\ ncalls < MaxCalls

Init ==
    /\ variant \in {"vision", "nlp"}
    /\ pc = "idle"
    /\ ncalls = 0
    /\ args = None
    /\ data = None
    /\ labels = None
    /\ proba = None
    /\ stds = None
    /\ i = 0
    /\ total_gradients = None
    /\ avg_gradients = None
    /\ noise = None
    /\ noised_data = None
    /\ vi = 0
    /\ predicted_label = None
    /\ predicted_proba = None
    /\ self_labels = None
    /\ calls = << >>
    /\ invoked = {}
    /\ failure = None
    /\ returned = {}
    /\ baseline_ret = None
    /\ result = None

\* a fresh frame: the locals of interpret before its first statement
FreshLocals ==
    /\ proba' = None
    /\ stds' = None
    /\ i' = 0
    /\ total_gradients' = None
    /\ avg_gradients' = None
    /\ noise' = None
    /\ noised_data' = None
    /\ vi' = 0
    /\ calls' = << >>
    /\ returned' = {}
    /\ baseline_ret' = None
    /\ result' = None

\* ------------------------------------------- SmoothGradInterpreter.interpret
\* lines 67-72: the call is entered, images_transform_pipeline yields data
\* and _build_predict_fn installs predict_fn.
VisionInterpret(inputs, lab, na, ns, vis, sp) ==
    /\ variant = "vision"
    /\ CanStart
    /\ ncalls' = ncalls + 1
    /\ args' = Some([inputs |-> inputs, labels |-> lab, noise_amount |-> na,
                     n_samples |-> ns, visual |-> vis, save_path |-> sp])
    /\ data' = inputs
    /\ invoked' = {"images_transform_pipeline", "_build_predict_fn"}
    /\ pc' = "baseline"
    /\ FreshLocals
    /\ labels' = None
    /\ failure' = None
    /\ UNCHANGED <<variant, fields>>

\* line 75: predict_fn(data, labels) raises.
VisionBaselineRaises ==
    /\ variant = "vision"
    /\ pc = "baseline"
    /\ calls' = Append(calls, [input |-> "data", labels |-> A.labels, noise_amount |-> None,
                               raised |-> TRUE])
    /\ failure' = Raise("predict_fn", calls')
    /\ pc' = "raised"
    /\ UNCHANGED <<variant, ncalls, args, data, labels, proba, stds, i, total_gradients,
                   avg_gradients, noise, noised_data, vi, fields, invoked, returned,
                   baseline_ret, result>>

\* lines 75-86: predict_fn(data, labels) returns (_, pl, pp); the fields are
\* stored, the labels resolved and reshaped (ValueError when their size is not
\* bsz), stds computed and the accumulator zeroed.
VisionBaseline(pl, pp) ==
    /\ variant = "vision"
    /\ pc = "baseline"
    /\ calls' = Append(calls, [input |-> "data", labels |-> A.labels, noise_amount |-> None,
                               raised |-> FALSE])
    /\ baseline_ret' = Some([label |-> pl, proba |-> pp])
    /\ predicted_label' = Some(pl)
    /\ predicted_proba' = Some(pp)
    /\ LET lab == IF A.labels = None THEN pl ELSE A.labels[1]
       IN IF ReshapeOk(lab, Bsz)
          THEN /\ labels' = Some(lab)
               /\ stds' = Stds(data, A.noise_amount)
               /\ total_gradients' = Some(ZerosLike(data))
               /\ pc' = "loop"
               /\ failure' = None
          ELSE /\ failure' = Raise("reshape", calls')
               /\ pc' = "raised"
               /\ UNCHANGED <<labels, stds, total_gradients>>
    /\ UNCHANGED <<variant, ncalls, args, data, proba, i, avg_gradients, noise, noised_data,
                   vi, self_labels, invoked, returned, result>>

\* faulty variant: the exception of a noisy call is caught and the sample skipped
VisionSampleSwallows(z) ==
    /\ variant = "vision"
    /\ pc = "loop"
    /\ i < A.n_samples
    /\ noise' = Some(Noise(data, stds, z))
    /\ noised_data' = Some(Noised(data, noise'[1]))
    /\ calls' = Append(calls, [input |-> "_noised_data", labels |-> labels, noise_amount |-> None,
                               raised |-> TRUE])
    /\ i' = i + 1
    /\ UNCHANGED <<variant, pc, ncalls, args, data, labels, proba, stds, total_gradients,
                   avg_gradients, vi, fields, invoked, failure, returned, baseline_ret,
                   result>>

\* lines 87-91: iteration i draws the noise and predict_fn(_noised_data, labels)
\* raises.
VisionSampleRaises(z) ==
    /\ variant = "vision"
    /\ pc = "loop"
    /\ i < A.n_samples
    /\ noise' = Some(Noise(data, stds, z))
    /\ noised_data' = Some(Noised(data, noise'[1]))
    /\ calls' = Append(calls, [input |-> "_noised_data", labels |-> labels, noise_amount |-> None,
                               raised |-> TRUE])
    /\ failure' = Raise("predict_fn", calls')
    /\ pc' = "raised"
    /\ UNCHANGED <<variant, ncalls, args, data, labels, proba, stds, i, total_gradients,
                   avg_gradients, vi, fields, invoked, returned, baseline_ret, result>>

\* lines 87-92: iteration i draws the noise, predict_fn(_noised_data, labels)
\* returns (gradients filled with g, pl, _) and the gradients are accumulated.
VisionSample(z, g, pl) ==
    /\ variant = "vision"
    /\ pc = "loop"
    /\ i < A.n_samples
    /\ noise' = Some(Noise(data, stds, z))
    /\ noised_data' = Some(Noised(data, noise'[1]))
    /\ calls' = Append(calls, [input |-> "_noised_data", labels |-> labels, noise_amount |-> None,
                               raised |-> FALSE])
    /\ labels' = Some(VisionLabelsAfterSample(labels[1], pl))
    /\ total_gradients' = Some(Accumulate(total_gradients[1], FillLike(data, g)))
    /\ data' = DataAfterSample(data, noised_data'[1])
    /\ returned' = returned \cup {g}
    /\ i' = i + 1
    /\ UNCHANGED <<variant, pc, ncalls, args, proba, stds, avg_gradients, vi, fields,
                   invoked, failure, baseline_ret, result>>

\* lines 94-101: the loop is over; the division, then the decision whether to
\* visualise; preprocess_save_path returns.
VisionAverage ==
    /\ variant = "vision"
    /\ pc = "loop"
    /\ ~(i < A.n_samples)
    /\ avg_gradients' = Some(Average(total_gradients[1], A.n_samples))
    /\ IF ~A.save_path /\ ~A.visual
       THEN /\ pc' = "return"
            /\ UNCHANGED <<invoked, vi>>
       ELSE /\ invoked' = invoked \cup {"preprocess_save_path"}
            /\ vi' = 0
            /\ pc' = IF 0 < Bsz THEN "vis" ELSE "return"
    /\ UNCHANGED <<variant, ncalls, args, data, labels, proba, stds, i, total_gradients,
                   noise, noised_data, fields, calls, failure, returned, baseline_ret,
                   result>>

\* lines 94-101: as VisionAverage, but preprocess_save_path raises.
VisionSavePathRaises ==
    /\ variant = "vision"
    /\ pc = "loop"
    /\ ~(i < A.n_samples)
    /\ A.save_path \/ A.visual
    /\ avg_gradients' = Some(Average(total_gradients[1], A.n_samples))
    /\ invoked' = invoked \cup {"preprocess_save_path"}
    /\ failure' = Raise("preprocess_save_path", calls)
    /\ pc' = "raised"
    /\ UNCHANGED <<variant, ncalls, args, data, labels, proba, stds, i, total_gradients,
                   noise, noised_data, vi, fields, calls, returned, baseline_ret, result>>

\* the visualisation functions iteration vi of lines 102-110 calls, in order
VisSteps(vis, sp) ==
    <<"explanation_to_vis">>
      \o (IF vis THEN <<"show_vis_explanation">> ELSE << >>)
      \o (IF sp THEN <<"save_image">> ELSE << >>)

\* lines 102-110: image vi is rendered, shown and saved as requested.
VisionVisualize ==
    /\ variant = "vision"
    /\ pc = "vis"
    /\ invoked' = invoked \cup {VisSteps(A.visual, A.save_path)[k] :
                                  k \in 1..Len(VisSteps(A.visual, A.save_path))}
    /\ vi' = vi + 1
    /\ pc' = IF vi' < Bsz THEN "vis" ELSE "return"
    /\ UNCHANGED <<variant, ncalls, args, data, labels, proba, stds, i, total_gradients,
                   avg_gradients, noise, noised_data, fields, calls, failure, returned,
                   baseline_ret, result>>

\* lines 102-110: the k-th visualisation function called for image vi raises.
VisionVisualizeRaises(k) ==
    /\ variant = "vision"
    /\ pc = "vis"
    /\ k \in 1..Len(VisSteps(A.visual, A.save_path))
    /\ invoked' = invoked \cup {VisSteps(A.visual, A.save_path)[n] : n \in 1..k}
    /\ failure' = Raise(VisSteps(A.visual, A.save_path)[k], calls)
    /\ pc' = "raised"
    /\ UNCHANGED <<variant, ncalls, args, data, labels, proba, stds, i, total_gradients,
                   avg_gradients, noise, noised_data, vi, fields, calls, returned,
                   baseline_ret, result>>

\* lines 113-115: self.labels = labels; return avg_gradients.
VisionReturn ==
    /\ variant = "vision"
    /\ pc = "return"
    /\ self_labels' = labels
    /\ result' = avg_gradients
    /\ pc' = "done"
    /\ UNCHANGED <<variant, ncalls, args, data, labels, proba, stds, i, total_gradients,
                   avg_gradients, noise, noised_data, vi, predicted_label, predicted_proba,
                   calls, invoked, failure, returned, baseline_ret>>

\* ---------------------------------------- SmoothGradNLPInterpreter.interpret
NLPArgs(tok, fn, lab, na, ns, vis) ==
    Some([tokenizer |-> tok, text_to_input_fn |-> fn, labels |-> lab,
          noise_amount |-> na, n_samples |-> ns, visual |-> vis])

\* line 167: the assertion on tokenizer / text_to_input_fn fails.
NLPInterpretRejects(tok, fn, lab, na, ns, vis) ==
    /\ variant = "nlp"
    /\ CanStart
    /\ ~ValidTextArgs(tok, fn)
    /\ ncalls' = ncalls + 1
    /\ args' = NLPArgs(tok, fn, lab, na, ns, vis)
    /\ FreshLocals
    /\ labels' = lab
    /\ data' = None
    /\ invoked' = {}
    /\ failure' = Raise("assert", << >>)
    /\ pc' = "raised"
    /\ UNCHANGED <<variant, fields>>

\* lines 167-180: the assertion passes and text_to_input_fn(raw_text) raises.
NLPTextToInputRaises(tok, fn, lab, na, ns, vis) ==
    /\ variant = "nlp"
    /\ CanStart
    /\ ValidTextArgs(tok, fn)
    /\ ncalls' = ncalls + 1
    /\ args' = NLPArgs(tok, fn, lab, na, ns, vis)
    /\ FreshLocals
    /\ labels' = lab
    /\ data' = None
    /\ invoked' = {"text_to_input_fn"}
    /\ failure' = Raise("text_to_input_fn", << >>)
    /\ pc' = "raised"
    /\ UNCHANGED <<variant, fields>>

\* lines 167-186: the assertion passes, text_to_input_fn yields model_input
\* and _build_predict_fn installs predict_fn.
NLPInterpret(tok, fn, lab, na, ns, vis) ==
    /\ variant = "nlp"
    /\ CanStart
    /\ ValidTextArgs(tok, fn)
    /\ ncalls' = ncalls + 1
    /\ args' = NLPArgs(tok, fn, lab, na, ns, vis)
    /\ FreshLocals
    /\ labels' = lab
    /\ data' = ModelInput
    /\ invoked' = {"text_to_input_fn", "_build_predict_fn"}
    /\ failure' = None
    /\ pc' = "baseline"
    /\ UNCHANGED <<variant, fields>>

\* line 188: predict_fn(model_input, label, noise_amount=None) raises.
NLPBaselineRaises ==
    /\ variant = "nlp"
    /\ pc = "baseline"
    /\ calls' = Append(calls, [input |-> "model_input", labels |-> labels, noise_amount |-> None,
                               raised |-> TRUE])
    /\ failure' = Raise("predict_fn", calls')
    /\ pc' = "raised"
    /\ UNCHANGED <<variant, ncalls, args, data, labels, proba, stds, i, total_gradients,
                   avg_gradients, noise, noised_data, vi, fields, invoked, returned,
                   baseline_ret, result>>

\* faulty variant: the fields stored right after the baseline call, as the vision
\* variant does
NLPFieldsAfterBaseline_Stores(cur, l, p) == <<Some(l), Some(p)>>

\* the fields after the baseline call returned (l, p): left alone
NLPFieldsAfterBaseline(cur, l, p) == cur

\* lines 188-191: the baseline call returns (gradients, l, _, p); label and
\* proba are rebound and the accumulator zeroed.
NLPBaseline(l, p) ==
    /\ variant = "nlp"
    /\ pc = "baseline"
    /\ calls' = Append(calls, [input |-> "model_input", labels |-> labels, noise_amount |-> None,
                               raised |-> FALSE])
    /\ baseline_ret' = Some([label |-> l, proba |-> p])
    /\ labels' = Some(l)
    /\ proba' = Some(p)
    /\ total_gradients' = Some(ZerosLike(data))
    /\ predicted_label' = NLPFieldsAfterBaseline(<<predicted_label, predicted_proba>>, l, p)[1]
    /\ predicted_proba' = NLPFieldsAfterBaseline(<<predicted_label, predicted_proba>>, l, p)[2]
    /\ pc' = "loop"
    /\ UNCHANGED <<variant, ncalls, args, data, stds, i, avg_gradients, noise, noised_data,
                   vi, self_labels, invoked, failure, returned, result>>

\* line 193: predict_fn(model_input, label, noise_amount=noise_amount) raises.
NLPSampleRaises ==
    /\ variant = "nlp"
    /\ pc = "loop"
    /\ i < A.n_samples
    /\ calls' = Append(calls, [input |-> "model_input", labels |-> labels,
                               noise_amount |-> Some(A.noise_amount),
                               raised |-> TRUE])
    /\ failure' = Raise("predict_fn", calls')
    /\ pc' = "raised"
    /\ UNCHANGED <<variant, ncalls, args, data, labels, proba, stds, i, total_gradients,
                   avg_gradients, noise, noised_data, vi, fields, invoked, returned,
                   baseline_ret, result>>

\* lines 192-194: the noisy call returns (gradients filled with g, l, _, _)
\* and the gradients are accumulated.
NLPSample(g, l) ==
    /\ variant = "nlp"
    /\ pc = "loop"
    /\ i < A.n_samples
    /\ calls' = Append(calls, [input |-> "model_input", labels |-> labels,
                               noise_amount |-> Some(A.noise_amount),
                               raised |-> FALSE])
    /\ labels' = Some(NLPLabelAfterSample(labels[1], l))
    /\ total_gradients' = Some(Accumulate(total_gradients[1], FillLike(data, g)))
    /\ returned' = returned \cup {g}
    /\ i' = i + 1
    /\ UNCHANGED <<variant, pc, ncalls, args, data, proba, stds, avg_gradients, noise,
                   noised_data, vi, fields, invoked, failure, baseline_ret, result>>

\* lines 196-208: the division, the two fields, the return.
NLPAverage ==
    /\ variant = "nlp"
    /\ pc = "loop"
    /\ ~(i < A.n_samples)
    /\ avg_gradients' = Some(Average(total_gradients[1], A.n_samples))
    /\ predicted_label' = labels
    /\ predicted_proba' = proba
    /\ result' = avg_gradients'
    /\ pc' = "done"
    /\ UNCHANGED <<variant, ncalls, args, data, labels, proba, stds, i, total_gradients,
                   noise, noised_data, vi, self_labels, calls, invoked, failure, returned,
                   baseline_ret>>

\* --------------------------------------------------------------- the caller
\* The call has returned or raised: its frame is gone and the object, with
\* its fields, waits for the next interpret call.
Exit ==
    /\ pc \in {"done", "raised"}
    /\ pc' = "idle"
    /\ args' = None
    /\ data' = None
    /\ labels' = None
    /\ failure' = None
    /\ invoked' = {}
    /\ FreshLocals
    /\ UNCHANGED <<variant, ncalls, fields>>

\* ------------------------------------------------------------ specification
Next ==
    \/ /\ pc = "idle"
       /\ \E inputs \in Batches, lab \in LabelArgs, na \in NoiseAmounts,
             ns \in SampleCounts, vis \in BOOLEAN, sp \in BOOLEAN :
             VisionInterpret(inputs, lab, na, ns, vis, sp)
    \/ VisionBaselineRaises
    \/ \E pl \in PredLabels(Bsz), pp \in PredProbas(Bsz) : VisionBaseline(pl, pp)
    \/ \E z \in NoiseZ : VisionSampleRaises(z)
    \/ \E z \in NoiseZ, g \in GradVals, pl \in PredLabels(Bsz) : VisionSample(z, g, pl)
    \/ VisionAverage
    \/ VisionSavePathRaises
    \/ VisionVisualize
    \/ \E k \in 1..3 : VisionVisualizeRaises(k)
    \/ VisionReturn
    \/ /\ pc = "idle"
       /\ \E tok \in BOOLEAN, fn \in BOOLEAN, lab \in NLPLabelArgs, na \in NoiseAmounts,
             ns \in SampleCounts, vis \in BOOLEAN :
             NLPInterpretRejects(tok, fn, lab, na, ns, vis)
    \/ /\ pc = "idle"
       /\ \E tok \in BOOLEAN, fn \in BOOLEAN, lab \in NLPLabelArgs, na \in NoiseAmounts,
             ns \in SampleCounts, vis \in BOOLEAN :
             NLPTextToInputRaises(tok, fn, lab, na, ns, vis)
    \/ /\ pc = "idle"
       /\ \E tok \in BOOLEAN, fn \in BOOLEAN, lab \in NLPLabelArgs, na \in NoiseAmounts,
             ns \in SampleCounts, vis \in BOOLEAN :
             NLPInterpret(tok, fn, lab, na, ns, vis)
    \/ NLPBaselineRaises
    \/ \E l \in PredLabels(1), p \in PredProbas(1) : NLPBaseline(l, p)
    \/ NLPSampleRaises
    \/ \E g \in GradVals, l \in PredLabels(1) : NLPSample(g, l)
    \/ NLPAverage
    \/ Exit

Spec == Init /\ [][Next]_vars

\* =================================================================== claims
InCall == args /= None
Site == IF failure = None THEN "none" ELSE failure[1].site
NoisyIdx == 2..Len(calls)

\* C1: a call with n_samples <= 0 is rejected before the sampling loop: it
\* never performs the division by n_samples and never returns an explanation.
C1_NonPositiveSamplesRejected ==
    (InCall /\ A.n_samples <= 0) => (avg_gradients = None /\ result = None)

\* C2: an NLP call with both tokenizer and text_to_input_fn, or with neither,
\* fails on the assertion before text_to_input_fn, _build_predict_fn or
\* predict_fn is invoked; with exactly one of them the assertion passes.
C2_TextArgsValidation ==
    (variant = "nlp" /\ InCall) =>
        IF A.tokenizer = A.text_to_input_fn
        THEN pc = "raised" /\ Site = "assert" /\ invoked = {} /\ calls = << >>
        ELSE Site /= "assert"

C2_Witness ==
    /\ variant = "nlp"
    /\ InCall
    /\ A.tokenizer
    /\ A.text_to_input_fn
    /\ pc = "raised"

\* C3: every noisy predict_fn call of a call receives the labels resolved at
\* the baseline call: the explicit labels when given (vision), otherwise the
\* labels the baseline call returned, whatever the noisy calls return.
C3_LabelFixation ==
    \A k \in NoisyIdx :
        calls[k].labels =
            IF variant = "vision" /\ A.labels /= None
            THEN A.labels
            ELSE Some(baseline_ret[1].label)

C3_Witness ==
    /\ variant = "nlp"
    /\ pc = "done"
    /\ Len(calls) >= 3
    /\ A.labels = None

\* C4 as stated: with the same gradient g returned by every noisy call and
\* n_samples >= 1, interpret returns exactly g.
C4_ConstantGradientExact ==
    \A g \in GradVals :
        (pc = "done" /\ A.n_samples >= 1 /\ returned = {g})
            => result = Some(FillLike(data, g))

\* the odd part of a positive integer
RECURSIVE OddPart(_)
OddPart(a) == IF a % 2 = 0 THEN OddPart(a \div 2) ELSE a

\* k * g is a float32 value (exponent range aside)
ExactMultiple(g, k) == g.m = 0 \/ BitLen(OddPart(k * Abs(g.m))) <= MantissaBits

\* C4 amended: with the same gradient g returned by every noisy call and
\* n_samples >= 1, interpret returns g exactly whenever every partial sum
\* k * g (k <= n_samples) is a float32 value (otherwise the float32 sum of
\* n_samples copies of g need not be n_samples * g).
C4_ConstantGradientExactWhenRepresentable ==
    \A g \in GradVals :
        (pc = "done" /\ A.n_samples >= 1 /\ returned = {g}
           /\ \A k \in 1..A.n_samples : ExactMultiple(g, k))
            => result = Some(FillLike(data, g))

C4_Witness ==
    /\ pc = "done"
    /\ A.n_samples = 3
    /\ returned = {FMinusOne}
    /\ result = Some(FillLike(data, FMinusOne))

\* C5: a predict_fn call that raises is the last predict_fn call of the
\* interpret call: the call is over, nothing is retried, no average was
\* computed and nothing is returned.
C5_PredictFailureAborts ==
    \A k \in 1..Len(calls) :
        calls[k].raised =>
            /\ k = Len(calls)
            /\ pc = "raised"
            /\ Site = "predict_fn"
            /\ avg_gradients = None
            /\ result = None

C5_Witness ==
    /\ pc = "raised"
    /\ Len(calls) >= 3
    /\ calls[Len(calls)].raised

\* C6: explicit vision labels whose length is not the batch size are
\* rejected: no predict_fn call is made with them and nothing is returned
\* (stated for calls whose n_samples is valid).
C6_MisSizedLabelsRejected ==
    (variant = "vision" /\ InCall /\ A.n_samples >= 1
       /\ A.labels /= None /\ Len(A.labels[1]) /= Len(A.inputs))
        => (calls = << >> /\ result = None)

\* C7: explanation_to_vis, show_vis_explanation and save_image are invoked
\* only when visual is true or save_path is given, and when one of them fails
\* the caller still obtains the averaged gradients computed before (stated
\* for calls whose n_samples is valid).
C7_VisFailureKeepsExplanation ==
    (variant = "vision" /\ InCall /\ A.n_samples >= 1) =>
        /\ (invoked \cap VisFunctions /= {}) => (A.visual \/ A.save_path)
        /\ (Site \in VisFunctions) => (avg_gradients /= None /\ result = avg_gradients)

\* C8: a successful interpret made 1 + n_samples predict_fn calls: first the
\* baseline call on the unperturbed input (noise_amount=None in the NLP
\* variant), then n_samples noisy calls (the caller's noise_amount in the NLP
\* variant), and only then the division.
C8_CallProtocol ==
    (pc = "done") =>
        /\ Len(calls) = 1 + A.n_samples
        /\ calls[1].input \in {"data", "model_input"}
        /\ calls[1].noise_amount = None
        /\ \A k \in NoisyIdx :
              IF variant = "vision"
              THEN calls[k].input = "_noised_data"
              ELSE calls[k].noise_amount = Some(A.noise_amount)

\* C9: in the vision variant stds is noise_amount * (max - min) of each
\* sample of the original batch, never negative for a non-negative
\* noise_amount, the batch is never changed, and the input of every noisy
\* call is the original batch plus that iteration's noise, which is a normal
\* draw scaled by stds.
C9_NoiseScaleFromOriginal ==
    (variant = "vision" /\ InCall /\ stds /= None) =>
        /\ data = A.inputs
        /\ DOMAIN stds = DOMAIN A.inputs
        /\ \A j \in DOMAIN stds :
              /\ stds[j] = A.noise_amount * (MaxOf(A.inputs[j]) - MinOf(A.inputs[j]))
              /\ A.noise_amount >= 0 => stds[j] >= 0
        /\ (noised_data /= None) =>
              /\ \E z \in NoiseZ : \A j \in DOMAIN A.inputs : \A k \in DOMAIN A.inputs[j] :
                     noise[1][j][k] =
                         A.noise_amount * (MaxOf(A.inputs[j]) - MinOf(A.inputs[j])) * z[k]
              /\ \A j \in DOMAIN A.inputs : \A k \in DOMAIN A.inputs[j] :
                     noised_data[1][j][k] = A.inputs[j][k] + noise[1][j][k]

C9_Witness ==
    /\ variant = "vision"
    /\ pc = "loop"
    /\ i >= 2
    /\ \E j \in DOMAIN stds : stds[j] > 0

\* C10: in the NLP variant predicted_label and predicted_proba change only
\* in the step that ends a call successfully, after all n_samples noisy calls
\* and the division, and then hold what that call's baseline predict_fn call
\* returned; a call that fails therefore leaves them as they were.
C10_FieldsFrame ==
    [][(variant = "nlp" /\ <<predicted_label, predicted_proba>>' /= <<predicted_label, predicted_proba>>)
         => /\ pc = "loop"
            /\ pc' = "done"
            /\ Len(calls) >= 1 + A.n_samples
            /\ avg_gradients' /= None
            /\ predicted_label' = Some(baseline_ret[1].label)
            /\ predicted_proba' = Some(baseline_ret[1].proba)]_vars

C10_Witness ==
    /\ variant = "nlp"
    /\ ncalls = 2
    /\ pc = "raised"
    /\ Site = "predict_fn"
    /\ Len(calls) >= 2
    /\ predicted_label /= None
    /\ Some(baseline_ret[1].label) /= predicted_label

====
